---- MODULE Spec2Model ----
(***************************************************************************)
(* A model of load_data.py: the reconciler (load_games), the aggregator    *)
(* (assemble_totals), the scorers, the playing-time estimator, the         *)
(* age-group normaliser, the spreadsheet shaper and main.                  *)
(*                                                                         *)
(* Python strings on which the code works character by character are      *)
(* sequences of one-character strings; identifiers, statuses and type tags *)
(* are atomic strings.  A dict is a function; a dict whose iteration order *)
(* reaches the output carries its insertion order beside it.               *)
(***************************************************************************)
EXTENDS Integers, Sequences, FiniteSets, TLC

VARIABLES
    docs,               \* the games*.json files, in the order glob yields them
    args,               \* the mode selected on the command line
    now,                \* datetime.now(): [year, month]
    pc,                 \* position of main
    file_idx,           \* load_games: number of documents read so far
    games,              \* load_games: the merged games, in insertion order
    game_assignments,   \* load_games: id -> game_assignment entity
    event_roles,        \* load_games: id -> event_role entity
    users,              \* load_games: id -> user entity
    game_levels,        \* load_games: id -> game_level entity
    game_idx,           \* load_games: number of games resolved so far
    totals,             \* the ledger: name -> season -> division -> role -> count
    user_order,         \* the ledger's names in insertion order
    scores,             \* main: name -> score
    sheet_headers,      \* dump_to_csv: headers, the header row
    user_dict,          \* dump_to_csv: the rows, in ledger order
    stdout,             \* the lines printed so far
    csv,                \* the CSV destination: [status, fieldnames, rows]
    error,              \* "" or the exception that ended the run
    division_in,        \* the normaliser's input (SpecDivision)
    division_out        \* the normaliser's outcome (SpecDivision)

vars == <<docs, args, now, pc, file_idx, games, game_assignments, event_roles,
          users, game_levels, game_idx, totals, user_order, scores, sheet_headers,
          user_dict, stdout, csv, error, division_in, division_out>>

----------------------------------------------------------------------------
(* Strings *)

\* The characters the model orders or folds, in code-point order.
Alphabet ==
    <<" ", "-", "0", "1", "2", "3", "4", "5", "6", "7", "8", "9",
      "A", "B", "C", "D", "E", "F", "G", "H", "I", "J", "K", "L", "M",
      "N", "O", "P", "Q", "R", "S", "T", "U", "V", "W", "X", "Y", "Z",
      "a", "b", "c", "d", "e", "f", "g", "h", "i", "j", "k", "l", "m",
      "n", "o", "p", "q", "r", "s", "t", "u", "v", "w", "x", "y", "z">>

Ord(c) == CHOOSE i \in 1..Len(Alphabet) : Alphabet[i] = c

Digits == <<"0", "1", "2", "3", "4", "5", "6", "7", "8", "9">>

IsDigit(c) == \E i \in 1..Len(Digits) : Digits[i] = c

DigitValue(c) == (CHOOSE i \in 1..Len(Digits) : Digits[i] = c) - 1

IsUpper(c) == Ord(c) >= Ord("A") /\ Ord(c) <= Ord("Z")

\* str.casefold, on the model's alphabet
casefold(s) ==
    [i \in 1..Len(s) |->
        IF IsUpper(s[i]) THEN Alphabet[Ord(s[i]) + (Ord("a") - Ord("A"))]
        ELSE s[i]]

\* s[:n]
Take(s, n) == SubSeq(s, 1, IF Len(s) < n THEN Len(s) ELSE n)

\* sub in s
Contains(s, sub) ==
    \E i \in 0..(Len(s) - Len(sub)) : SubSeq(s, i + 1, i + Len(sub)) = sub

\* str.strip
strip(s) ==
    LET keep == {i \in 1..Len(s) : s[i] # " "}
    IN  IF keep = {} THEN <<>>
        ELSE SubSeq(s, CHOOSE i \in keep : \A j \in keep : i <= j,
                       CHOOSE i \in keep : \A j \in keep : i >= j)

\* str < str, as Python compares strings
RECURSIVE StrLess(_, _)
StrLess(a, b) ==
    IF b = <<>> THEN FALSE
    ELSE IF a = <<>> THEN TRUE
    ELSE IF a[1] # b[1] THEN Ord(a[1]) < Ord(b[1])
    ELSE StrLess(Tail(a), Tail(b))

\* sorted(a set of strings)
RECURSIVE sorted(_)
sorted(S) ==
    IF S = {} THEN <<>>
    ELSE LET m == CHOOSE x \in S : \A y \in S \ {x} : StrLess(x, y)
         IN  <<m>> \o sorted(S \ {m})

\* a non-empty run of decimal digits
IsNumeral(s) == Len(s) > 0 /\ \A i \in 1..Len(s) : IsDigit(s[i])

RECURSIVE ParseNat(_)
ParseNat(s) ==
    IF s = <<>> THEN 0
    ELSE 10 * ParseNat(SubSeq(s, 1, Len(s) - 1)) + DigitValue(s[Len(s)])

\* int(s): the strings it accepts on the model's alphabet, a run of digits
\* after an optional minus sign, with the surrounding blanks ignored
CanParseInt(s) ==
    LET t == strip(s)
    IN  IF t # <<>> /\ t[1] = "-" THEN IsNumeral(Tail(t)) ELSE IsNumeral(t)

ParseInt(s) ==
    LET t == strip(s)
    IN  IF t # <<>> /\ t[1] = "-" THEN 0 - ParseNat(Tail(t)) ELSE ParseNat(t)

\* str(n)
RECURSIVE NatToStr(_)
NatToStr(n) ==
    IF n < 10 THEN <<Digits[n + 1]>>
    ELSE NatToStr(n \div 10) \o <<Digits[(n % 10) + 1]>>

IntToStr(n) == IF n < 0 THEN <<"-">> \o NatToStr(0 - n) ELSE NatToStr(n)

\* " ".join(parts)
RECURSIVE join(_)
join(parts) ==
    IF Len(parts) = 0 THEN <<>>
    ELSE IF Len(parts) = 1 THEN parts[1]
    ELSE parts[1] \o <<" ">> \o join(Tail(parts))

----------------------------------------------------------------------------
(* Dicts *)

EmptyDict == [k \in {} |-> 0]

Get(d, k, default) == IF k \in DOMAIN d THEN d[k] ELSE default

Put(d, k, v) == [x \in (DOMAIN d) \cup {k} |-> IF x = k THEN v ELSE d[x]]

\* the fold of a loop over a finite set whose body is op(acc, x)
RECURSIVE FoldSet(_, _, _)
FoldSet(op(_, _), acc, S) ==
    IF S = {} THEN acc
    ELSE LET x == CHOOSE y \in S : TRUE
         IN  FoldSet(op, op(acc, x), S \ {x})

\* the fold of a loop over a sequence whose body is op(acc, x)
RECURSIVE FoldSeq(_, _, _)
FoldSeq(op(_, _), acc, seq) ==
    IF seq = <<>> THEN acc
    ELSE FoldSeq(op, op(acc, Head(seq)), Tail(seq))

----------------------------------------------------------------------------
(* Outcomes: a call returns a value or raises *)

Return(v) == [raised |-> "", value |-> v]

Raise(exc) == [raised |-> exc, value |-> 0]

\* the rest of a computation after a call: nothing when the call raised
Bind(outcome, rest(_)) == IF outcome.raised # "" THEN outcome ELSE rest(outcome.value)

----------------------------------------------------------------------------
(* Decimal: the exact value, as numerator and denominator *)

Decimal(n) == <<n, 1>>

DecAdd(a, b) == IF a[2] = b[2] THEN <<a[1] + b[1], a[2]>>
                ELSE <<a[1] * b[2] + b[1] * a[2], a[2] * b[2]>>

DecMul(a, k) == <<a[1] * k, a[2]>>

DecDiv(a, k) == IF a[1] % k = 0 THEN <<a[1] \div k, a[2]>> ELSE <<a[1], a[2] * k>>

\* a variant of round that sends ties upwards
round_half_up(a) ==
    LET q == a[1] \div a[2]
        r == a[1] % a[2]
    IN  IF 2 * r < a[2] THEN q ELSE q + 1

\* round(Decimal): to the nearest integer, ties to the even one
round(a) ==
    LET q == a[1] \div a[2]
        r == a[1] % a[2]
    IN  IF 2 * r < a[2] THEN q
        ELSE IF 2 * r > a[2] THEN q + 1
        ELSE IF q % 2 = 0 THEN q ELSE q + 1

----------------------------------------------------------------------------
(* Constant tables *)

GAME_MINUTES ==
    (<<"0", "7", "U">> :> 40) @@ (<<"0", "8", "U">> :> 40) @@ (<<"0", "9", "U">> :> 50) @@ (<<"1", "0", "U">> :> 50) @@
    (<<"1", "2", "U">> :> 60) @@ (<<"1", "4", "U">> :> 70) @@ (<<"1", "5", "U">> :> 80) @@ (<<"1", "6", "U">> :> 80) @@
    (<<"1", "8", "U">> :> 90) @@ (<<"1", "9", "U">> :> 90)

base_score ==
    (<<"0", "7", "U">> :> 1) @@ (<<"0", "8", "U">> :> 1) @@ (<<"0", "9", "U">> :> 2) @@ (<<"1", "0", "U">> :> 2) @@
    (<<"1", "2", "U">> :> 3) @@ (<<"1", "4", "U">> :> 4) @@ (<<"1", "5", "U">> :> 5) @@ (<<"1", "6", "U">> :> 5) @@
    (<<"1", "8", "U">> :> 6) @@ (<<"1", "9", "U">> :> 6)

RegularSeason == <<"R", "e", "g", "u", "l", "a", "r", " ", "S", "e", "a", "s", "o", "n">>

Tournament == <<"T", "o", "u", "r", "n", "a", "m", "e", "n", "t">>

----------------------------------------------------------------------------
(* convert_raw_division_to_age_group *)

\* "U" not in division[:3]
LacksU(division) == ~ \E i \in 1..Len(Take(division, 3)) : division[i] = "U"

\* f"{delta:0>2}"
pad2(delta) ==
    LET s == IntToStr(delta)
    IN  IF Len(s) < 2 THEN <<"0">> \o s ELSE s

convert_raises(division) ==
    LacksU(division) /\ ~ CanParseInt(Take(division, 4))

\* a variant of the normaliser that adds the year only after August
convert_after_august(division) ==
    IF LacksU(division)
    THEN LET year  == ParseInt(Take(division, 4))
             delta == (now.year - year) + (IF now.month > 8 THEN 1 ELSE 0)
         IN  pad2(delta) \o <<"U">>
    ELSE division

convert_raw_division_to_age_group(division) ==
    IF LacksU(division)
    THEN LET year  == ParseInt(Take(division, 4))
             delta == (now.year - year) + (IF now.month >= 8 THEN 1 ELSE 0)
         IN  pad2(delta) \o <<"U">>
    ELSE division

convert_call(division) ==
    IF convert_raises(division) THEN Raise("ValueError")
    ELSE Return(convert_raw_division_to_age_group(division))

----------------------------------------------------------------------------
(* Scorers *)

\* a variant of is_referee that knows one of the two titles
is_referee_only(role) == role = <<"R", "e", "f", "e", "r", "e", "e">>

is_referee(role) == role \in {<<"C", "R">>, <<"R", "e", "f", "e", "r", "e", "e">>}

\* the (season, division) pairs of one person's ledger
Divisions(user_totals) ==
    UNION {{<<s, d>> : d \in DOMAIN user_totals[s]} : s \in DOMAIN user_totals}

\* a variant of the lookup that scores an unknown division 1
base_or_one(division) ==
    IF Take(division, 3) \in DOMAIN base_score
    THEN Return(base_score[Take(division, 3)])
    ELSE Return(1)

\* base_score[division[:3]]
base_of(division) ==
    IF Take(division, 3) \in DOMAIN base_score
    THEN Return(base_score[Take(division, 3)])
    ELSE Raise("KeyError")

\* division = convert_raw_division_to_age_group(division)
\* base = base_score[division[:3]]
base_lookup(division) == Bind(convert_call(division), base_of)

basic_score(user_totals) ==
    Return(
      FoldSet(LAMBDA t1, season :
        FoldSet(LAMBDA t2, division :
          FoldSet(LAMBDA t3, role : t3 + user_totals[season][division][role],
                  t2, DOMAIN user_totals[season][division]),
                t1, DOMAIN user_totals[season]),
              0, DOMAIN user_totals))

\* the three division-based scorers: the loops over season, division and
\* role, adding points(season, role, role_count, base) to total; the first
\* lookup that raises ends them
boosted_score(user_totals, points(_, _, _, _)) ==
    FoldSet(LAMBDA t1, season :
      FoldSet(LAMBDA t2, division :
        Bind(t2, LAMBDA total2 :
          Bind(base_lookup(division), LAMBDA base :
            Return(
              FoldSet(LAMBDA t3, role :
                        t3 + points(season, role,
                                    user_totals[season][division][role], base),
                      total2, DOMAIN user_totals[season][division])))),
              t1, DOMAIN user_totals[season]),
            Return(0), DOMAIN user_totals)

division_boost_score(user_totals) ==
    boosted_score(user_totals,
                  LAMBDA season, role, role_count, base : role_count * base)

role_modifier(role) == IF is_referee(role) THEN 2 ELSE 1

division_and_role_boost_score(user_totals) ==
    boosted_score(user_totals,
                  LAMBDA season, role, role_count, base :
                    role_count * base * role_modifier(role))

tournament_mod(season_type) == IF season_type = Tournament THEN 2 ELSE 1

division_tourney_and_role_boost_score(user_totals) ==
    boosted_score(user_totals,
                  LAMBDA season_type, role, role_count, base :
                    role_count * base * role_modifier(role)
                               * tournament_mod(season_type))

----------------------------------------------------------------------------
(* get_minutes *)

\* one role's addition to result
role_minutes(minutes_per_game, role, game_count) ==
    IF is_referee(role) THEN DecMul(minutes_per_game, game_count)
    ELSE IF Contains(role, <<"A", "R">>)
    THEN DecDiv(DecMul(DecMul(minutes_per_game, game_count), 4), 5)
    ELSE DecDiv(DecMul(DecMul(minutes_per_game, game_count), 3), 4)

\* GAME_MINUTES[division_label]
minutes_of(division_label) ==
    IF division_label \in DOMAIN GAME_MINUTES
    THEN Return(Decimal(GAME_MINUTES[division_label]))
    ELSE Raise("KeyError")

get_minutes(user_totals) ==
    Bind(FoldSet(LAMBDA r1, season :
           FoldSet(LAMBDA r2, division_label :
             Bind(r2, LAMBDA result2 :
               Bind(minutes_of(division_label), LAMBDA minutes_per_game :
                 Return(
                   FoldSet(LAMBDA r3, role :
                             DecAdd(r3, role_minutes(minutes_per_game, role,
                                        user_totals[season][division_label][role])),
                           result2, DOMAIN user_totals[season][division_label])))),
                   r1, DOMAIN user_totals[season]),
                 Return(Decimal(0)), DOMAIN user_totals),
         LAMBDA result : Return(round(result)))

----------------------------------------------------------------------------
(* Spreadsheet shaping *)

NameColumn == <<"N", "a", "m", "e">>

MinutesColumn == <<"T", "o", "t", "a", "l", " ", "m", "i", "n", "u", "t", "e", "s">>

BasicColumn == <<"B", "a", "s", "i", "c", " ", "s", "c", "o", "r", "e", " ", "(", "1", " ", "p", "e", "r", " ", "g", "a", "m", "e", ")">>

DivisionColumn == <<"+", "1", " ", "p", "o", "i", "n", "t", " ", "p", "e", "r", " ", "a", "g", "e", " ", "g", "r", "o", "u", "p">>

RoleColumn == <<"+", "1", " ", "p", "o", "i", "n", "t", " ", "p", "e", "r", " ", "a", "g", "e", " ", "g", "r", "o", "u", "p", " ", "*", " ", "2", " ", "p", "o", "i", "n", "t", "s", " ", "f", "o", "r", " ", "c", "e", "n", "t", "e", "r", "i", "n", "g">>

TourneyColumn == <<"+", "1", " ", "p", "o", "i", "n", "t", " ", "p", "e", "r", " ", "a", "g", "e", " ", "g", "r", "o", "u", "p", " ", "*", " ", "2", " ", "p", "o", "i", "n", "t", "s", " ", "f", "o", "r", " ", "c", "e", "n", "t", "e", "r", "i", "n", "g", " ", "*", " ", "2", " ", "f", "o", "r", " ", "t", "o", "u", "r", "n", "a", "m", "e", "n", "t">>

\* f"{season_type} {division} {role}"
column(season_type, division, role) ==
    season_type \o <<" ">> \o division \o <<" ">> \o role

\* the (season, division, role) cells of one person's ledger
Cells(user_totals) ==
    UNION {{<<p[1], p[2], r>> : r \in DOMAIN user_totals[p[1]][p[2]]} :
             p \in Divisions(user_totals)}

\* extra_roles after the loops over one person's ledger, or the exception
\* convert_raw_division_to_age_group ended them with
user_columns(user_totals, roles) ==
    FoldSet(LAMBDA acc, c :
              Bind(acc, LAMBDA extra :
                Bind(convert_call(c[2]), LAMBDA division :
                  Return(extra \cup {column(c[1], division, c[3])}))),
            Return(roles), Cells(user_totals))

\* overall_totals is iterated in the order of its names, order
get_headers_for_spreadsheet(overall_totals, order) ==
    Bind(FoldSeq(LAMBDA acc, user :
                   Bind(acc, LAMBDA extra : user_columns(overall_totals[user], extra)),
                 Return({}), order),
         LAMBDA extra :
           Return(<<NameColumn, BasicColumn, DivisionColumn, RoleColumn, TourneyColumn>>
                    \o sorted(extra)))

\* a variant of the fill that adds no column
fill_nothing(base_result, headers) == base_result

\* base_result |= {header: 0 for header in headers if header not in base_result}
fill_headers(base_result, headers) ==
    base_result @@
    [h \in {headers[i] : i \in 1..Len(headers)} \ DOMAIN base_result |-> 0]

\* the loops that write the person's own counts into the row
own_columns(user_totals, row) ==
    FoldSet(LAMBDA r1, season_type :
      FoldSeq(LAMBDA r2, division :
        Bind(r2, LAMBDA row2 :
          Bind(convert_call(division), LAMBDA age_group :
            Return(
              FoldSet(LAMBDA r3, role :
                        Put(r3, column(season_type, age_group, role),
                            user_totals[season_type][division][role]),
                      row2, DOMAIN user_totals[season_type][division])))),
              r1, sorted(DOMAIN user_totals[season_type])),
            Return(row), DOMAIN user_totals)

format_user_totals_for_spreadsheet(user, user_totals, minutes, headers) ==
    Bind(basic_score(user_totals), LAMBDA basic :
      Bind(division_boost_score(user_totals), LAMBDA boosted :
        Bind(division_and_role_boost_score(user_totals), LAMBDA role_boosted :
          Bind(division_tourney_and_role_boost_score(user_totals), LAMBDA tourney_boosted :
            own_columns(user_totals,
              fill_headers(
                (NameColumn :> user) @@ (MinutesColumn :> minutes) @@
                (BasicColumn :> basic) @@ (DivisionColumn :> boosted) @@
                (RoleColumn :> role_boosted) @@ (TourneyColumn :> tourney_boosted),
                headers))))))

----------------------------------------------------------------------------
(* load_games: reading one document *)

\* a variant of the merge that lets a repeated game replace the earlier one
RECURSIVE merge_data_replacing(_, _)
merge_data_replacing(merged, data) ==
    IF data = <<>> THEN [raised |-> "", games |-> merged]
    ELSE IF \E i \in 1..Len(merged) : merged[i].id = Head(data).id
    THEN merge_data_replacing(
           [i \in 1..Len(merged) |->
              IF merged[i].id = Head(data).id
              THEN Head(data) @@ [assignments |-> EmptyDict] ELSE merged[i]],
           Tail(data))
    ELSE merge_data_replacing(Append(merged, Head(data) @@ [assignments |-> EmptyDict]),
                              Tail(data))

\* for game in game_data["data"]: the merged games after the loop, or the
\* duplicate that ended it
RECURSIVE merge_data(_, _)
merge_data(merged, data) ==
    IF data = <<>> THEN [raised |-> "", games |-> merged]
    ELSE IF \E i \in 1..Len(merged) : merged[i].id = Head(data).id
    THEN [raised |-> "ValueError", games |-> merged]
    ELSE merge_data(Append(merged, Head(data) @@ [assignments |-> EmptyDict]),
                    Tail(data))

EntityTypes == {"game_assignment", "event_role", "user", "game_level"}

\* for included_info in game_data["included"]: the four tables after the
\* loop, or the unknown type that ended it
RECURSIVE merge_included(_, _)
merge_included(tables, included) ==
    IF included = <<>> THEN [raised |-> "", tables |-> tables]
    ELSE IF Head(included).type \notin EntityTypes
    THEN [raised |-> "ValueError", tables |-> tables]
    ELSE merge_included(
           [tables EXCEPT ![Head(included).type] =
                            Put(@, Head(included).id, Head(included))],
           Tail(included))

----------------------------------------------------------------------------
(* load_games: resolving one game *)

\* the roster entry appended for an accepted assignment
ref_entry(user, role) ==
    [user_id |-> user.id, first_name |-> user.first_name,
     last_name |-> user.last_name, role |-> role]

\* for assignment_id in assignment_ids: the game after the loop, or the
\* exception that ended it
RECURSIVE resolve_assignments(_, _, _, _)
resolve_assignments(tables, game, game_level, assignment_ids) ==
    IF assignment_ids = <<>> THEN [raised |-> "", game |-> game]
    ELSE IF Head(assignment_ids) \notin DOMAIN tables.game_assignment
    THEN [raised |-> "KeyError", game |-> game]
    ELSE
      LET assignment == tables.game_assignment[Head(assignment_ids)]
      IN  IF assignment.external_game_id # game.id
          THEN [raised |-> "AssertionError", game |-> game]
          ELSE IF assignment.official_label_col \notin DOMAIN game_level.labels
          THEN [raised |-> "KeyError", game |-> game]
          ELSE IF assignment.status # "accepted"
          THEN resolve_assignments(tables, game, game_level, Tail(assignment_ids))
          ELSE IF assignment.event_role \notin DOMAIN tables.event_role
          THEN [raised |-> "KeyError", game |-> game]
          ELSE IF IntToStr(tables.event_role[assignment.event_role].user_id) \notin DOMAIN tables.user
          THEN [raised |-> "KeyError", game |-> game]
          ELSE
            LET role == game_level.labels[assignment.official_label_col]
                user == tables.user[IntToStr(tables.event_role[assignment.event_role].user_id)]
            IN  resolve_assignments(tables,
                  Put(game, "refs", Append(Get(game, "refs", <<>>), ref_entry(user, role))),
                  game_level, Tail(assignment_ids))

\* a variant of the status test that knows cancelled games only
is_cancelled(game) == game.status = "cancelled"

\* game["attributes"]["status"] in {"cancelled", "postponed"}
is_off(game) == game.status \in {"cancelled", "postponed"}

\* the body of "for game in games.values()"
resolve_game(tables, game) ==
    IF is_off(game) THEN [raised |-> "", game |-> game]
    ELSE IF game.game_level \notin DOMAIN tables.game_level
    THEN [raised |-> "KeyError", game |-> game]
    ELSE
      LET game_level == tables.game_level[game.game_level]
          division == IF game_level.game_level = <<"U", "8", "C">> THEN <<"0", "8", "U", "C">>
                      ELSE game_level.game_level
          is_tournament == Contains(casefold(game_level.schedule_name), <<"t", "o", "u", "r", "n", "e", "y">>)
      IN  resolve_assignments(tables,
            Put(Put(game, "division", division), "is_tournament", is_tournament),
            game_level, game.assignments_game)

----------------------------------------------------------------------------
(* assemble_totals *)

\* totals[name][season_type][division][role] += 1, on nested defaultdicts
tally(ledger, name, season_type, division, role) ==
    LET user_totals  == Get(ledger, name, EmptyDict)
        season_dict  == Get(user_totals, season_type, EmptyDict)
        role_dict    == Get(season_dict, division, EmptyDict)
    IN  Put(ledger, name,
            Put(user_totals, season_type,
                Put(season_dict, division,
                    Put(role_dict, role, Get(role_dict, role, 0) + 1))))

\* " ".join(i.strip() for i in (ref["first_name"], ref["last_name"]))
display_name(ref) == join(<<strip(ref.first_name), strip(ref.last_name)>>)

\* the names of a ledger in insertion order, after name is written to it
note_user(order, name) ==
    IF \E i \in 1..Len(order) : order[i] = name THEN order ELSE Append(order, name)

\* for ref in game["refs"]
tally_refs(acc, game, division, season_type) ==
    FoldSeq(LAMBDA a, ref :
              [a EXCEPT !.totals = tally(@, display_name(ref), season_type,
                                         division, ref.role),
                        !.order = note_user(@, display_name(ref))],
            acc, game.refs)

\* for game in games.values(): the ledger after the loop, or the exception
\* that ended it
RECURSIVE assemble_games(_, _)
assemble_games(acc, game_seq) ==
    IF game_seq = <<>> THEN acc
    ELSE
      LET game == Head(game_seq)
      IN  IF Get(game, "refs", <<>>) = <<>> THEN assemble_games(acc, Tail(game_seq))
          ELSE IF convert_raises(game.division)
          THEN [acc EXCEPT !.raised = "ValueError"]
          ELSE assemble_games(
                 tally_refs(acc, game,
                            Take(convert_raw_division_to_age_group(game.division), 3),
                            IF game.is_tournament THEN Tournament ELSE RegularSeason),
                 Tail(game_seq))

assemble_totals(game_seq) ==
    assemble_games([raised |-> "", totals |-> EmptyDict, order |-> <<>>], game_seq)

----------------------------------------------------------------------------
(* Input documents *)

Game(id, status, game_level, assignment_ids) ==
    [type |-> "game", id |-> id, status |-> status, game_level |-> game_level,
     assignments_game |-> assignment_ids]

Assignment(id, external_game_id, official_label_col, status, event_role) ==
    [type |-> "game_assignment", id |-> id, external_game_id |-> external_game_id,
     official_label_col |-> official_label_col, status |-> status,
     event_role |-> event_role]

EventRole(id, user_id) == [type |-> "event_role", id |-> id, user_id |-> user_id]

User(id, first_name, last_name) ==
    [type |-> "user", id |-> id, first_name |-> first_name, last_name |-> last_name]

GameLevel(id, game_level, schedule_name, labels) ==
    [type |-> "game_level", id |-> id, game_level |-> game_level,
     schedule_name |-> schedule_name, labels |-> labels]

Document(data, included) == [parse |-> "ok", data |-> data, included |-> included]

Labels ==
    [official_1 |-> <<"R", "e", "f", "e", "r", "e", "e">>, official_2 |-> <<"A", "R", "1">>, official_3 |-> <<"4", "t", "h">>]

TourneyLabels == [official_1 |-> <<"C", "R">>, official_2 |-> <<"A", "R">>]

Ann == User(<<"7">>, <<" ", "A", "n", "n">>, <<"L", "e", "e", " ">>)
Bob == User(<<"8">>, <<"B", "o", "b">>, <<"R", "a", "y">>)
AnnToo == User(<<"9">>, <<"A", "n", "n">>, <<"L", "e", "e">>)

RoleAnn == EventRole("r1", 7)
RoleBob == EventRole("r2", 8)
RoleAnnToo == EventRole("r3", 9)

Fall10U == GameLevel("l1", <<"1", "0", "U">>, <<"F", "a", "l", "l", " ", "2", "0", "2", "6">>, Labels)
TourneyU8C == GameLevel("l2", <<"U", "8", "C">>, <<"A", "r", "e", "a", " ", "T", "O", "U", "R", "N", "E", "Y">>, TourneyLabels)
Fall11U == GameLevel("l3", <<"1", "1", "U">>, <<"F", "a", "l", "l", " ", "2", "0", "2", "6">>, Labels)
FallAdult == GameLevel("l4", <<"A", "d", "u", "l", "t">>, <<"F", "a", "l", "l", " ", "2", "0", "2", "6">>, Labels)
Fall2016 == GameLevel("l5", <<"2", "0", "1", "6">>, <<"F", "a", "l", "l", " ", "2", "0", "2", "6">>, Labels)

\* one active 10U game: Ann referees, Bob assists, a declined third slot
DocFall ==
    Document(<<Game("g1", "scheduled", "l1", <<"a1", "a2", "a3">>)>>,
             <<Assignment("a1", "g1", "official_1", "accepted", "r1"),
               Assignment("a2", "g1", "official_2", "accepted", "r2"),
               Assignment("a3", "g1", "official_3", "declined", "r2"),
               RoleAnn, RoleBob, Ann, Bob, Fall10U>>)

\* one active tournament game of the irregular division U8C
DocTourney ==
    Document(<<Game("g2", "confirmed", "l2", <<"a4", "a5">>)>>,
             <<Assignment("a4", "g2", "official_1", "accepted", "r1"),
               Assignment("a5", "g2", "official_2", "accepted", "r2"),
               RoleAnn, RoleBob, Ann, Bob, TourneyU8C>>)

\* a cancelled and a postponed game, each with an accepted assignment
DocOff ==
    Document(<<Game("g3", "cancelled", "l1", <<"a6">>),
               Game("g4", "postponed", "l1", <<"a7">>)>>,
             <<Assignment("a6", "g3", "official_1", "accepted", "r1"),
               Assignment("a7", "g4", "official_1", "accepted", "r2"),
               RoleAnn, RoleBob, Ann, Bob, Fall10U>>)

\* a page that repeats game g1, now cancelled
DocRepeat == Document(<<Game("g1", "cancelled", "l1", <<>>)>>, <<>>)

\* a file that is not JSON, and a file holding an empty object
DocBroken == [parse |-> "JSONDecodeError", data |-> <<>>, included |-> <<>>]
DocEmpty == [parse |-> "empty", data |-> <<>>, included |-> <<>>]

\* an active game of a division the base-score table lacks
Doc11U ==
    Document(<<Game("g5", "scheduled", "l3", <<"a8">>)>>,
             <<Assignment("a8", "g5", "official_1", "accepted", "r2"),
               RoleBob, Bob, Fall11U>>)

\* an active game whose division is neither an age group nor a birth year
DocAdult ==
    Document(<<Game("g6", "scheduled", "l4", <<"a9">>)>>,
             <<Assignment("a9", "g6", "official_2", "accepted", "r2"),
               RoleBob, Bob, FallAdult>>)

\* an entity of a type load_games does not know
DocVenue == Document(<<>>, <<[type |-> "venue", id |-> "v1"]>>)

\* an active game whose only assignment is declined and names a label
\* column the level's label table lacks
DocDeclined ==
    Document(<<Game("g7", "scheduled", "l1", <<"a10">>)>>,
             <<Assignment("a10", "g7", "official_9", "declined", "r1"),
               RoleAnn, Ann, Fall10U>>)

\* an earlier export of assignment a1, not yet accepted
DocStale ==
    Document(<<>>, <<Assignment("a1", "g1", "official_1", "pending", "r1")>>)

\* a second active 10U game, refereed by another Ann Lee
DocSecond ==
    Document(<<Game("g8", "scheduled", "l1", <<"a11">>)>>,
             <<Assignment("a11", "g8", "official_1", "accepted", "r3"),
               RoleAnnToo, AnnToo, Fall10U>>)

\* a game that links an assignment recorded for game g1
DocMismatch ==
    Document(<<Game("g9", "scheduled", "l1", <<"a1">>)>>,
             <<Assignment("a1", "g1", "official_1", "accepted", "r1"),
               RoleAnn, Ann, Fall10U>>)

\* an active game whose division is a birth year
DocBirthYear ==
    Document(<<Game("g10", "scheduled", "l5", <<"a12">>)>>,
             <<Assignment("a12", "g10", "official_3", "accepted", "r1"),
               RoleAnn, Ann, Fall2016>>)

DocPool ==
    {DocFall, DocTourney, DocOff, DocRepeat, DocBroken, DocEmpty, Doc11U,
     DocAdult, DocVenue, DocDeclined, DocStale, DocSecond, DocMismatch,
     DocBirthYear}

\* the most files a run reads
MaxDocs == 2

\* the sequences of at most n distinct elements of S
RECURSIVE DistinctSeqs(_, _)
DistinctSeqs(S, n) ==
    IF n = 0 THEN {<<>>}
    ELSE LET shorter == DistinctSeqs(S, n - 1)
         IN  shorter \cup
             UNION {{Append(q, x) : x \in S \ {q[i] : i \in 1..Len(q)}} :
                      q \in {r \in shorter : Len(r) = n - 1}}

Modes ==
    {"basic", "division_boost_only", "division_and_role_boost",
     "division_tournament_and_role_boost", "dump_all_modes_to_csv"}

Nows == {[year |-> 2026, month |-> 7], [year |-> 2026, month |-> 8]}

----------------------------------------------------------------------------
(* main *)

CsvUntouched == [status |-> "untouched", fieldnames |-> {}, rows |-> <<>>]

Tables ==
    [game_assignment |-> game_assignments, event_role |-> event_roles,
     user |-> users, game_level |-> game_levels]

Init ==
    /\ docs \in DistinctSeqs(DocPool, MaxDocs)
    /\ args \in Modes
    /\ now \in Nows
    /\ pc = "load_games"
    /\ file_idx = 0
    /\ games = <<>>
    /\ game_assignments = EmptyDict
    /\ event_roles = EmptyDict
    /\ users = EmptyDict
    /\ game_levels = EmptyDict
    /\ game_idx = 0
    /\ totals = EmptyDict
    /\ user_order = <<>>
    /\ scores = EmptyDict
    /\ sheet_headers = <<>>
    /\ user_dict = <<>>
    /\ stdout = <<>>
    /\ csv = CsvUntouched
    /\ error = ""
    /\ division_in = <<>>
    /\ division_out = Return(<<>>)

\* what one pass of "for game_file in game_path.glob(...)" leaves
read_document(merged, tables, doc) ==
    IF doc.parse # "ok" THEN [raised |-> "", games |-> merged, tables |-> tables]
    ELSE LET data == merge_data(merged, doc.data)
             included == merge_included(tables, doc.included)
         IN  IF data.raised # ""
             THEN [raised |-> data.raised, games |-> data.games, tables |-> tables]
             ELSE [raised |-> included.raised, games |-> data.games,
                   tables |-> included.tables]

\* load_games as a whole: every file read, then every game resolved, up to
\* the first exception
load_games(doc_seq) ==
    LET read == FoldSeq(LAMBDA acc, doc :
                          IF acc.raised # "" THEN acc
                          ELSE read_document(acc.games, acc.tables, doc),
                        [raised |-> "", games |-> <<>>,
                         tables |-> [game_assignment |-> EmptyDict,
                                     event_role |-> EmptyDict, user |-> EmptyDict,
                                     game_level |-> EmptyDict]],
                        doc_seq)
    IN  IF read.raised # "" THEN [raised |-> read.raised, games |-> read.games]
        ELSE FoldSeq(LAMBDA acc, game :
                       IF acc.raised # "" THEN acc
                       ELSE LET resolved == resolve_game(read.tables, game)
                            IN  [raised |-> resolved.raised,
                                 games |-> Append(acc.games, resolved.game)],
                     [raised |-> "", games |-> <<>>], read.games)

\* games = load_games(); totals = assemble_totals(games=games)
load_and_assemble(doc_seq) ==
    LET loaded == load_games(doc_seq)
    IN  IF loaded.raised # ""
        THEN [raised |-> loaded.raised, totals |-> EmptyDict, order |-> <<>>]
        ELSE assemble_totals(loaded.games)

\* an exception leaves main where it was raised
fail(exc) == error' = exc /\ UNCHANGED pc

\* load_games, first loop: one file
LoadDocument ==
    /\ pc = "load_games"
    /\ error = ""
    /\ file_idx < Len(docs)
    /\ LET read == read_document(games, Tables, docs[file_idx + 1])
       IN  /\ games' = read.games
           /\ game_assignments' = read.tables.game_assignment
           /\ event_roles' = read.tables.event_role
           /\ users' = read.tables.user
           /\ game_levels' = read.tables.game_level
           /\ file_idx' = file_idx + 1
           /\ IF read.raised # "" THEN fail(read.raised)
              ELSE UNCHANGED <<pc, error>>
    /\ UNCHANGED <<docs, args, now, game_idx, totals, user_order, scores,
                   sheet_headers, user_dict, stdout, csv, division_in, division_out>>

\* load_games, second loop: one game
ResolveGame ==
    /\ pc = "load_games"
    /\ error = ""
    /\ file_idx = Len(docs)
    /\ game_idx < Len(games)
    /\ LET resolved == resolve_game(Tables, games[game_idx + 1])
       IN  /\ games' = [games EXCEPT ![game_idx + 1] = resolved.game]
           /\ game_idx' = game_idx + 1
           /\ IF resolved.raised # "" THEN fail(resolved.raised)
              ELSE UNCHANGED <<pc, error>>
    /\ UNCHANGED <<docs, args, now, file_idx, game_assignments, event_roles, users,
                   game_levels, totals, user_order, scores, sheet_headers,
                   user_dict, stdout, csv, division_in, division_out>>

\* load_games returns the merged games
ReturnGames ==
    /\ pc = "load_games"
    /\ error = ""
    /\ file_idx = Len(docs)
    /\ game_idx = Len(games)
    /\ pc' = "assemble_totals"
    /\ UNCHANGED <<docs, args, now, file_idx, games, game_assignments, event_roles,
                   users, game_levels, game_idx, totals, user_order, scores,
                   sheet_headers, user_dict, stdout, csv, error, division_in,
                   division_out>>

\* assemble_totals, and main's choice of what to do with the ledger
AssembleTotals ==
    /\ pc = "assemble_totals"
    /\ error = ""
    /\ LET assembled == assemble_totals(games)
       IN  IF assembled.raised # ""
           THEN fail(assembled.raised) /\ UNCHANGED <<totals, user_order>>
           ELSE /\ totals' = assembled.totals
                /\ user_order' = assembled.order
                /\ pc' = IF args = "dump_all_modes_to_csv" THEN "dump_to_csv"
                         ELSE "score"
                /\ error' = error
    /\ UNCHANGED <<docs, args, now, file_idx, games, game_assignments, event_roles,
                   users, game_levels, game_idx, scores, sheet_headers, user_dict,
                   stdout, csv, division_in, division_out>>

\* the scorer main selects
score_func(mode, user_totals) ==
    IF mode = "basic" THEN basic_score(user_totals)
    ELSE IF mode = "division_boost_only" THEN division_boost_score(user_totals)
    ELSE IF mode = "division_and_role_boost"
    THEN division_and_role_boost_score(user_totals)
    ELSE division_tourney_and_role_boost_score(user_totals)

\* scores = {user: score_func(user_totals) for ...}: the dict, or the
\* exception of the first user whose scoring raises
score_users(mode, ledger, order) ==
    FoldSeq(LAMBDA acc, user :
              Bind(acc, LAMBDA so_far :
                Bind(score_func(mode, ledger[user]), LAMBDA score :
                  Return(Put(so_far, user, score)))),
            Return(EmptyDict), order)

\* sorted(scores.items(), key=lambda k: k[1], reverse=True): a stable sort
RECURSIVE ranking(_, _)
ranking(score_of, order) ==
    IF order = <<>> THEN <<>>
    ELSE LET best == CHOOSE i \in 1..Len(order) :
                       /\ \A j \in 1..Len(order) : score_of[order[j]] <= score_of[order[i]]
                       /\ \A j \in 1..(i - 1) : score_of[order[j]] < score_of[order[i]]
         IN  <<order[best]>> \o
             ranking(score_of, SubSeq(order, 1, best - 1)
                               \o SubSeq(order, best + 1, Len(order)))

\* f"{user}: {score}"
score_line(user, score) == user \o <<":", " ">> \o IntToStr(score)

ScoreUsers ==
    /\ pc = "score"
    /\ error = ""
    /\ LET scored == score_users(args, totals, user_order)
       IN  IF scored.raised # ""
           THEN fail(scored.raised) /\ UNCHANGED scores
           ELSE /\ scores' = scored.value
                /\ pc' = IF user_order = <<>> THEN "done" ELSE "print"
                /\ error' = error
    /\ UNCHANGED <<docs, args, now, file_idx, games, game_assignments, event_roles,
                   users, game_levels, game_idx, totals, user_order, sheet_headers,
                   user_dict, stdout, csv, division_in, division_out>>

\* one pass of the loop that prints the scores
PrintScore ==
    /\ pc = "print"
    /\ error = ""
    /\ LET user == ranking(scores, user_order)[Len(stdout) + 1]
       IN  stdout' = Append(stdout, score_line(user, scores[user]))
    /\ pc' = IF Len(stdout) + 1 = Len(user_order) THEN "done" ELSE "print"
    /\ UNCHANGED <<docs, args, now, file_idx, games, game_assignments, event_roles,
                   users, game_levels, game_idx, totals, user_order, scores,
                   sheet_headers, user_dict, csv, error, division_in, division_out>>

----------------------------------------------------------------------------
(* dump_to_csv *)

\* the CSV_FILE argument of --dump-all-modes-to-csv
CsvFile == <<"t", "o", "t", "a", "l", "s", ".", "c", "s", "v">>

\* one element of the user_dict comprehension: get_minutes is evaluated
\* for the minutes argument, then the row is shaped
user_row(user, user_totals, header_row) ==
    Bind(get_minutes(user_totals), LAMBDA minutes :
      format_user_totals_for_spreadsheet(user, user_totals, minutes, header_row))

\* the user_dict comprehension: the rows in ledger order, or the first
\* exception raised on the way
shape_rows(ledger, order, header_row) ==
    FoldSeq(LAMBDA acc, user :
              Bind(acc, LAMBDA so_far :
                Bind(user_row(user, ledger[user], header_row), LAMBDA row :
                  Return(Append(so_far, row)))),
            Return(<<>>), order)

\* headers and user_dict, or the first exception raised on the way
dump_rows(ledger, order) ==
    Bind(get_headers_for_spreadsheet(ledger, order), LAMBDA header_row :
      Bind(shape_rows(ledger, order, header_row), LAMBDA rows :
        Return([headers |-> header_row, rows |-> rows])))

\* sorted(user_dict, key=lambda k: k["Name"].casefold()): a stable sort
RECURSIVE sort_rows(_)
sort_rows(rows) ==
    IF rows = <<>> THEN <<>>
    ELSE LET first == CHOOSE i \in 1..Len(rows) :
                        /\ \A j \in 1..Len(rows) :
                             ~ StrLess(casefold(rows[j][NameColumn]),
                                       casefold(rows[i][NameColumn]))
                        /\ \A j \in 1..(i - 1) :
                             StrLess(casefold(rows[i][NameColumn]),
                                     casefold(rows[j][NameColumn]))
         IN  <<rows[first]>> \o
             sort_rows(SubSeq(rows, 1, first - 1) \o SubSeq(rows, first + 1, Len(rows)))

\* dump_to_csv, up to the with statement
DumpRows ==
    /\ pc = "dump_to_csv"
    /\ error = ""
    /\ LET shaped == dump_rows(totals, user_order)
       IN  IF shaped.raised # ""
           THEN fail(shaped.raised) /\ UNCHANGED <<sheet_headers, user_dict>>
           ELSE /\ sheet_headers' = shaped.value.headers
                /\ user_dict' = shaped.value.rows
                /\ pc' = "open"
                /\ error' = error
    /\ UNCHANGED <<docs, args, now, file_idx, games, game_assignments, event_roles,
                   users, game_levels, game_idx, totals, user_order, scores,
                   stdout, csv, division_in, division_out>>

\* open(csv_path, "w") and DictWriter(csvfile, fieldnames=user_dict[0].keys());
\* the field names are kept as a set, their order left out
OpenCsv ==
    /\ pc = "open"
    /\ error = ""
    /\ IF user_dict = <<>>
       THEN /\ csv' = [csv EXCEPT !.status = "truncated"]
            /\ fail("IndexError")
       ELSE /\ csv' = [status |-> "truncated", fieldnames |-> DOMAIN user_dict[1],
                       rows |-> <<>>]
            /\ pc' = "write"
            /\ error' = error
    /\ UNCHANGED <<docs, args, now, file_idx, games, game_assignments, event_roles,
                   users, game_levels, game_idx, totals, user_order, scores,
                   sheet_headers, user_dict, stdout, division_in, division_out>>

\* writeheader, writerows (a row with a key outside fieldnames raises), and
\* main's print
WriteCsv ==
    /\ pc = "write"
    /\ error = ""
    /\ IF \E i \in 1..Len(user_dict) : ~ (DOMAIN user_dict[i] \subseteq csv.fieldnames)
       THEN /\ csv' = [csv EXCEPT !.status = "written"]
            /\ fail("ValueError")
            /\ UNCHANGED stdout
       ELSE /\ csv' = [csv EXCEPT !.status = "written", !.rows = sort_rows(user_dict)]
            /\ stdout' = Append(stdout, <<"S", "a", "v", "e", "d", " ", "t", "o", " ">> \o CsvFile)
            /\ pc' = "done"
            /\ error' = error
    /\ UNCHANGED <<docs, args, now, file_idx, games, game_assignments, event_roles,
                   users, game_levels, game_idx, totals, user_order, scores,
                   sheet_headers, user_dict, division_in, division_out>>

Next ==
    \/ LoadDocument
    \/ ResolveGame
    \/ ReturnGames
    \/ AssembleTotals
    \/ ScoreUsers
    \/ PrintScore
    \/ DumpRows
    \/ OpenCsv
    \/ WriteCsv

Spec == Init /\ [][Next]_vars

----------------------------------------------------------------------------
(* The age-group normaliser on its own: every division code of at most     *)
(* MaxDivisionLen characters over DivisionChars                            *)

DivisionChars == {"0", "1", "2", "U", "C", "-"}

MaxDivisionLen == 4

\* the strings over S of at most n characters
RECURSIVE Strings(_, _)
Strings(S, n) ==
    IF n = 0 THEN {<<>>}
    ELSE LET shorter == Strings(S, n - 1)
         IN  shorter \cup {Append(q, c) : q \in shorter, c \in S}

\* the variables main owns, before main starts
MainIdle ==
    /\ docs = <<>>
    /\ args = "basic"
    /\ file_idx = 0
    /\ games = <<>>
    /\ game_assignments = EmptyDict
    /\ event_roles = EmptyDict
    /\ users = EmptyDict
    /\ game_levels = EmptyDict
    /\ game_idx = 0
    /\ stdout = <<>>
    /\ csv = CsvUntouched
    /\ error = ""

main_vars ==
    <<docs, args, file_idx, games, game_assignments, event_roles, users,
      game_levels, game_idx, stdout, csv, error>>

DivisionInit ==
    /\ MainIdle
    /\ now \in Nows
    /\ pc = "call"
    /\ division_in \in Strings(DivisionChars, MaxDivisionLen)
    /\ division_out = Return(<<>>)
    /\ totals = EmptyDict
    /\ user_order = <<>>
    /\ scores = EmptyDict
    /\ sheet_headers = <<>>
    /\ user_dict = <<>>

\* convert_raw_division_to_age_group(division_in)
ConvertDivision ==
    /\ pc = "call"
    /\ division_out' = convert_call(division_in)
    /\ pc' = "returned"
    /\ UNCHANGED <<main_vars, now, division_in, totals, user_order, scores,
                   sheet_headers, user_dict>>

DivisionNext == ConvertDivision

SpecDivision == DivisionInit /\ [][DivisionNext]_vars

----------------------------------------------------------------------------
(* The scorers and the estimator on their own: every one-person ledger of  *)
(* at most MaxTally roster entries over the divisions and roles below      *)

LedgerNames == {<<"A", "n", "n", " ", "L", "e", "e">>}

LedgerSeasons == {RegularSeason, Tournament}

LedgerDivisions == {<<"1", "0", "U">>, <<"1", "4", "U">>, <<"1", "8", "U">>, <<"1", "1", "U">>}

LedgerRoles == {<<"R", "e", "f", "e", "r", "e", "e">>, <<"C", "R">>, <<"A", "R">>, <<"A", "R", "1">>, <<"4", "t", "h">>}

MaxTally == 3

\* the number of roster entries a ledger holds
ledger_size(ledger) ==
    FoldSet(LAMBDA n, user : n + basic_score(ledger[user]).value, 0, DOMAIN ledger)

\* a ledger is about to be built for the scorers or for the shaper
PureInit(start) ==
    /\ MainIdle
    /\ now = [year |-> 2026, month |-> 11]
    /\ pc = start
    /\ division_in = <<>>
    /\ division_out = Return(<<>>)
    /\ totals = EmptyDict
    /\ user_order = <<>>
    /\ scores = EmptyDict
    /\ sheet_headers = <<>>
    /\ user_dict = <<>>

LedgerInit == PureInit("ledger")

\* one more roster entry: the statement of assemble_totals' inner loop
Tally ==
    /\ pc = "ledger"
    /\ ledger_size(totals) < MaxTally
    /\ \E name \in LedgerNames, season_type \in LedgerSeasons,
          division \in LedgerDivisions, role \in LedgerRoles :
         /\ totals' = tally(totals, name, season_type, division, role)
         /\ user_order' = note_user(user_order, name)
    /\ UNCHANGED <<main_vars, now, pc, division_in, division_out, scores,
                   sheet_headers, user_dict>>

\* the four scorers and get_minutes, on every person's ledger
ScoreLedger ==
    /\ pc = "ledger"
    /\ scores' = [user \in DOMAIN totals |->
                    [basic |-> basic_score(totals[user]),
                     division |-> division_boost_score(totals[user]),
                     division_and_role |-> division_and_role_boost_score(totals[user]),
                     division_tourney_and_role |->
                         division_tourney_and_role_boost_score(totals[user]),
                     minutes |-> get_minutes(totals[user])]]
    /\ pc' = "scored"
    /\ UNCHANGED <<main_vars, now, division_in, division_out, totals, user_order,
                   sheet_headers, user_dict>>

LedgerNext == Tally \/ ScoreLedger

SpecLedger == LedgerInit /\ [][LedgerNext]_vars

----------------------------------------------------------------------------
(* The shaper on its own: every ledger of at most MaxSheetTally roster     *)
(* entries over the names, divisions and roles below                       *)

SheetNames == {<<"A", "n", "n", " ", "L", "e", "e">>, <<"B", "o", "b", " ", "R", "a", "y">>}

SheetDivisions == {<<"1", "0", "U">>, <<"1", "8", "U">>, <<"1", "1", "U">>}

SheetRoles == {<<"C", "R">>, <<"A", "R", "1">>, <<"4", "t", "h">>}

MaxSheetTally == 2

SheetInit == PureInit("sheet")

\* one more roster entry: the statement of assemble_totals' inner loop
SheetTally ==
    /\ pc = "sheet"
    /\ ledger_size(totals) < MaxSheetTally
    /\ \E name \in SheetNames, season_type \in LedgerSeasons,
          division \in SheetDivisions, role \in SheetRoles :
         /\ totals' = tally(totals, name, season_type, division, role)
         /\ user_order' = note_user(user_order, name)
    /\ UNCHANGED <<main_vars, now, pc, division_in, division_out, scores,
                   sheet_headers, user_dict>>

\* the orders in which the names of a ledger can be iterated
Orders(names) ==
    {order \in [1..Cardinality(names) -> names] :
       \A i, j \in 1..Cardinality(names) : order[i] = order[j] => i = j}

\* get_headers_for_spreadsheet on the ledger, iterated in any order
HeadSheet ==
    /\ pc = "sheet"
    /\ \E order \in Orders(DOMAIN totals) :
         LET headed == get_headers_for_spreadsheet(totals, order)
         IN  IF headed.raised # ""
             THEN pc' = "unheaded" /\ UNCHANGED sheet_headers
             ELSE pc' = "headed" /\ sheet_headers' = headed.value
    /\ UNCHANGED <<main_vars, now, division_in, division_out, totals, user_order,
                   scores, user_dict>>

\* format_user_totals_for_spreadsheet for every person, with those headers
ShapeSheet ==
    /\ pc = "headed"
    /\ LET shaped == shape_rows(totals, user_order, sheet_headers)
       IN  IF shaped.raised # ""
           THEN pc' = "unshaped" /\ UNCHANGED user_dict
           ELSE pc' = "shaped" /\ user_dict' = shaped.value
    /\ UNCHANGED <<main_vars, now, division_in, division_out, totals, user_order,
                   scores, sheet_headers>>

SheetNext == SheetTally \/ HeadSheet \/ ShapeSheet

SpecSheet == SheetInit /\ [][SheetNext]_vars

----------------------------------------------------------------------------
(* Properties of the age-group normaliser (SpecDivision) *)

\* what the text of a whole number stands for: digits, or a minus sign and
\* digits
DigitOf == [c \in {"0", "1", "2", "3", "4", "5", "6", "7", "8", "9"} |->
              CASE c = "0" -> 0 [] c = "1" -> 1 [] c = "2" -> 2 [] c = "3" -> 3
                [] c = "4" -> 4 [] c = "5" -> 5 [] c = "6" -> 6 [] c = "7" -> 7
                [] c = "8" -> 8 [] c = "9" -> 9]

AllDigits(s) == s # <<>> /\ \A i \in 1..Len(s) : s[i] \in DOMAIN DigitOf

IsInteger(s) ==
    \/ AllDigits(s)
    \/ s # <<>> /\ s[1] = "-" /\ AllDigits(Tail(s))

RECURSIVE Power10(_)
Power10(n) == IF n = 0 THEN 1 ELSE 10 * Power10(n - 1)

RECURSIVE SumDigits(_, _)
SumDigits(s, i) ==
    IF i > Len(s) THEN 0
    ELSE DigitOf[s[i]] * Power10(Len(s) - i) + SumDigits(s, i + 1)

IntegerValue(s) == IF s[1] = "-" THEN 0 - SumDigits(Tail(s), 1) ELSE SumDigits(s, 1)

\* the first n characters of s
Prefix(s, n) == [i \in 1..(IF Len(s) < n THEN Len(s) ELSE n) |-> s[i]]

\* text is the age, written with at least two characters, then "U"
IsAgeGroupOf(text, age) ==
    /\ Len(text) >= 3
    /\ text[Len(text)] = "U"
    /\ IsInteger(Prefix(text, Len(text) - 1))
    /\ IntegerValue(Prefix(text, Len(text) - 1)) = age
    /\ (age >= 0 /\ age <= 9) => (Len(text) = 3 /\ text[1] = "0")
    /\ (age >= 10 /\ age <= 99) => Len(text) = 3

\* C8: convert_raw_division_to_age_group returns its input unchanged when
\* the first three characters contain "U"; otherwise, when the first four
\* characters are a whole number (a birth year), it returns
\* current year - birth year, plus one from August on, written with at least
\* two digits and followed by "U"; otherwise it raises ValueError.
C8_Normalise ==
    pc = "returned" =>
        IF \E i \in 1..Len(division_in) : i <= 3 /\ division_in[i] = "U"
        THEN division_out = [raised |-> "", value |-> division_in]
        ELSE IF IsInteger(Prefix(division_in, 4))
        THEN /\ division_out.raised = ""
             /\ IsAgeGroupOf(division_out.value,
                             now.year - IntegerValue(Prefix(division_in, 4))
                               + (IF now.month \in 8..12 THEN 1 ELSE 0))
        ELSE division_out.raised = "ValueError"

\* birth year 2012 in August 2026 has become "15U"
C8_Witness ==
    /\ pc = "returned"
    /\ division_in = <<"2", "0", "1", "2">>
    /\ now = [year |-> 2026, month |-> 8]
    /\ division_out = [raised |-> "", value |-> <<"1", "5", "U">>]

----------------------------------------------------------------------------
(* Properties of the scorers and of get_minutes (SpecLedger) *)

\* the (season type, division, role) cells one person's ledger holds
CellsOf(person) ==
    UNION {UNION {{<<season_type, division, role>> :
                     role \in DOMAIN person[season_type][division]} :
                  division \in DOMAIN person[season_type]} :
           season_type \in DOMAIN person}

\* the sum of weight(c) over the cells in S
RECURSIVE SumOver(_, _)
SumOver(weight(_), S) ==
    IF S = {} THEN 0
    ELSE LET c == CHOOSE x \in S : TRUE
         IN  weight(c) + SumOver(weight, S \ {c})

\* a ledger of one person holding one cell
OneCell(season_type, division, role, count) ==
    (season_type :> (division :> (role :> count)))

Scored(points) == [raised |-> "", value |-> points]

CentreTitles == {<<"C", "R">>, <<"R", "e", "f", "e", "r", "e", "e">>}

\* C4: on a person's ledger whose divisions are all in the base-score table,
\* basic_score is the sum of the counts, division_boost_score the sum of
\* count x base(division), division_and_role_boost_score that with x 2 for
\* the roles "CR" and "Referee", division_tourney_and_role_boost_score that
\* with a further x 2 in a tournament; one "Referee" 10U entry scores 1, 2, 4, 4
\* in regular season and 1, 2, 4, 8 in a tournament.
C4_Scorers ==
    pc = "scored" =>
      \A user \in DOMAIN totals :
        LET person == totals[user]
            count(c) == person[c[1]][c[2]][c[3]]
            base(c) == base_score[c[2]]
            centre(c) == IF c[3] \in CentreTitles THEN 2 ELSE 1
            tourney(c) == IF c[1] = <<"T", "o", "u", "r", "n", "a", "m", "e", "n", "t">> THEN 2 ELSE 1
            by_division(c) == count(c) * base(c)
            by_role(c) == count(c) * base(c) * centre(c)
            by_tourney(c) == count(c) * base(c) * centre(c) * tourney(c)
        IN  /\ (\A c \in CellsOf(person) : c[2] \in DOMAIN base_score) =>
                 /\ scores[user].basic = Scored(SumOver(count, CellsOf(person)))
                 /\ scores[user].division = Scored(SumOver(by_division, CellsOf(person)))
                 /\ scores[user].division_and_role =
                        Scored(SumOver(by_role, CellsOf(person)))
                 /\ scores[user].division_tourney_and_role =
                        Scored(SumOver(by_tourney, CellsOf(person)))
            /\ person = OneCell(<<"R", "e", "g", "u", "l", "a", "r", " ", "S", "e", "a", "s", "o", "n">>, <<"1", "0", "U">>, <<"R", "e", "f", "e", "r", "e", "e">>, 1) =>
                 /\ scores[user].basic = Scored(1)
                 /\ scores[user].division = Scored(2)
                 /\ scores[user].division_and_role = Scored(4)
                 /\ scores[user].division_tourney_and_role = Scored(4)
            /\ person = OneCell(<<"T", "o", "u", "r", "n", "a", "m", "e", "n", "t">>, <<"1", "0", "U">>, <<"R", "e", "f", "e", "r", "e", "e">>, 1) =>
                 /\ scores[user].basic = Scored(1)
                 /\ scores[user].division = Scored(2)
                 /\ scores[user].division_and_role = Scored(4)
                 /\ scores[user].division_tourney_and_role = Scored(8)

\* one person with a "CR" 14U tournament game and an "AR" 18U regular-season
\* game has been scored 2, 10, 14 and 22
C4_Witness ==
    /\ pc = "scored"
    /\ \E user \in DOMAIN totals :
         /\ totals[user] = (<<"T", "o", "u", "r", "n", "a", "m", "e", "n", "t">> :> (<<"1", "4", "U">> :> (<<"C", "R">> :> 1)))
                           @@ (<<"R", "e", "g", "u", "l", "a", "r", " ", "S", "e", "a", "s", "o", "n">> :> (<<"1", "8", "U">> :> (<<"A", "R">> :> 1)))
         /\ scores[user].basic = Scored(2)
         /\ scores[user].division = Scored(10)
         /\ scores[user].division_and_role = Scored(14)
         /\ scores[user].division_tourney_and_role = Scored(22)

\* whether the role's text holds "AR"
HoldsAR(role) == \E i \in 1..(Len(role) - 1) : role[i] = "A" /\ role[i + 1] = "R"

\* twenty times the share of a game the role is on the field for
Twentieths(role) ==
    IF role \in CentreTitles THEN 20 ELSE IF HoldsAR(role) THEN 16 ELSE 15

\* n / 20 to the nearest whole number, ties to the even one
NearestEven(n) ==
    LET whole == n \div 20
        rest == n % 20
    IN  IF rest < 10 THEN whole
        ELSE IF rest > 10 THEN whole + 1
        ELSE IF whole % 2 = 0 THEN whole ELSE whole + 1

\* C5: get_minutes returns the exact sum over the cells of
\* minutes-per-game(division) x count x share, the share being 1 for "CR" and
\* "Referee", 4/5 for another role holding "AR" and 3/4 otherwise, rounded
\* once at the end with ties to the even integer: one "AR" 18U game gives
\* 72, one "4th" 10U game 38, one "4th" 14U game 52, two "4th" 10U games 75.
C5_Minutes ==
    pc = "scored" =>
      \A user \in DOMAIN totals :
        LET person == totals[user]
            twentieths(c) == GAME_MINUTES[c[2]] * person[c[1]][c[2]][c[3]]
                               * Twentieths(c[3])
        IN  /\ (\A c \in CellsOf(person) : c[2] \in DOMAIN GAME_MINUTES) =>
                 scores[user].minutes =
                     Scored(NearestEven(SumOver(twentieths, CellsOf(person))))
            /\ \A season_type \in LedgerSeasons :
                 /\ person = OneCell(season_type, <<"1", "8", "U">>, <<"A", "R">>, 1) =>
                      scores[user].minutes = Scored(72)
                 /\ person = OneCell(season_type, <<"1", "0", "U">>, <<"4", "t", "h">>, 1) =>
                      scores[user].minutes = Scored(38)
                 /\ person = OneCell(season_type, <<"1", "4", "U">>, <<"4", "t", "h">>, 1) =>
                      scores[user].minutes = Scored(52)
                 /\ person = OneCell(season_type, <<"1", "0", "U">>, <<"4", "t", "h">>, 2) =>
                      scores[user].minutes = Scored(75)

\* one "4th" 14U game, 52.5 minutes, has been estimated at 52
C5_Witness ==
    /\ pc = "scored"
    /\ \E user \in DOMAIN totals :
         /\ totals[user] = OneCell(<<"R", "e", "g", "u", "l", "a", "r", " ", "S", "e", "a", "s", "o", "n">>, <<"1", "4", "U">>, <<"4", "t", "h">>, 1)
         /\ scores[user].minutes = Scored(52)

----------------------------------------------------------------------------
(* Properties of the spreadsheet shaper (SpecSheet) *)

\* "<season type> <division> <role>"
ColumnOf(c) == c[1] \o <<" ">> \o c[2] \o <<" ">> \o c[3]

\* the combinations at least one person of the ledger has
DynamicColumns == UNION {{ColumnOf(c) : c \in CellsOf(totals[user])} : user \in DOMAIN totals}

FixedHeaders ==
    <<<<"N", "a", "m", "e">>, <<"B", "a", "s", "i", "c", " ", "s", "c", "o", "r", "e", " ", "(", "1", " ", "p", "e", "r", " ", "g", "a", "m", "e", ")">>, <<"+", "1", " ", "p", "o", "i", "n", "t", " ", "p", "e", "r", " ", "a", "g", "e", " ", "g", "r", "o", "u", "p">>,
      <<"+", "1", " ", "p", "o", "i", "n", "t", " ", "p", "e", "r", " ", "a", "g", "e", " ", "g", "r", "o", "u", "p", " ", "*", " ", "2", " ", "p", "o", "i", "n", "t", "s", " ", "f", "o", "r", " ", "c", "e", "n", "t", "e", "r", "i", "n", "g">>,
      <<"+", "1", " ", "p", "o", "i", "n", "t", " ", "p", "e", "r", " ", "a", "g", "e", " ", "g", "r", "o", "u", "p", " ", "*", " ", "2", " ", "p", "o", "i", "n", "t", "s", " ", "f", "o", "r", " ", "c", "e", "n", "t", "e", "r", "i", "n", "g", " ", "*", " ", "2", " ", "f", "o", "r", " ", "t", "o", "u", "r", "n", "a", "m", "e", "n", "t">>>>

FixedColumns == {FixedHeaders[i] : i \in 1..Len(FixedHeaders)} \cup {<<"T", "o", "t", "a", "l", " ", "m", "i", "n", "u", "t", "e", "s">>}

\* a comes before b in lexicographic order of code points
Before(a, b) ==
    \E k \in 1..Len(b) :
      /\ \A i \in 1..(k - 1) : i <= Len(a) /\ a[i] = b[i]
      /\ \/ k = Len(a) + 1
         \/ k <= Len(a) /\ Ord(a[k]) < Ord(b[k])

\* C9: the dynamic columns get_headers_for_spreadsheet returns are exactly
\* the "<season type> <division> <role>" combinations some person has, in
\* lexicographic order, whatever the order in which the people are iterated;
\* every row format_user_totals_for_spreadsheet builds with those headers has
\* exactly the fixed columns and the dynamic columns as keys, with the
\* person's count where the person has the combination and 0 elsewhere.
C9_Sheet ==
    /\ pc \in {"headed", "shaped", "unshaped"} =>
         /\ Len(sheet_headers) = Len(FixedHeaders) + Cardinality(DynamicColumns)
         /\ \A i \in 1..Len(FixedHeaders) : sheet_headers[i] = FixedHeaders[i]
         /\ {sheet_headers[i] : i \in (Len(FixedHeaders) + 1)..Len(sheet_headers)}
              = DynamicColumns
         /\ \A i, j \in (Len(FixedHeaders) + 1)..Len(sheet_headers) :
              i < j => Before(sheet_headers[i], sheet_headers[j])
    /\ pc # "unheaded"
    /\ pc = "shaped" =>
         /\ Len(user_dict) = Len(user_order)
         /\ \A i \in 1..Len(user_dict) :
              LET person == totals[user_order[i]]
              IN  /\ DOMAIN user_dict[i] = FixedColumns \cup DynamicColumns
                  /\ user_dict[i][<<"N", "a", "m", "e">>] = user_order[i]
                  /\ \A user \in DOMAIN totals :
                       \A c \in CellsOf(totals[user]) :
                         user_dict[i][ColumnOf(c)] =
                           IF c \in CellsOf(person) THEN person[c[1]][c[2]][c[3]]
                           ELSE 0

\* two people with different combinations have been shaped: the headers were
\* collected starting from the second person, and the first person's row
\* holds 0 in the second person's column
C9_Witness ==
    /\ pc = "shaped"
    /\ Len(user_order) = 2
    /\ totals[user_order[1]] = OneCell(<<"T", "o", "u", "r", "n", "a", "m", "e", "n", "t">>, <<"1", "0", "U">>, <<"C", "R">>, 1)
    /\ totals[user_order[2]] = OneCell(<<"R", "e", "g", "u", "l", "a", "r", " ", "S", "e", "a", "s", "o", "n">>, <<"1", "8", "U">>, <<"A", "R", "1">>, 1)
    /\ sheet_headers[6] = <<"R", "e", "g", "u", "l", "a", "r", " ", "S", "e", "a", "s", "o", "n", " ", "1", "8", "U", " ", "A", "R", "1">>
    /\ sheet_headers[7] = <<"T", "o", "u", "r", "n", "a", "m", "e", "n", "t", " ", "1", "0", "U", " ", "C", "R">>
    /\ user_dict[1][<<"R", "e", "g", "u", "l", "a", "r", " ", "S", "e", "a", "s", "o", "n", " ", "1", "8", "U", " ", "A", "R", "1">>] = 0
    /\ user_dict[1][<<"T", "o", "u", "r", "n", "a", "m", "e", "n", "t", " ", "1", "0", "U", " ", "C", "R">>] = 1
    /\ user_dict[2][<<"T", "o", "u", "r", "n", "a", "m", "e", "n", "t", " ", "1", "0", "U", " ", "C", "R">>] = 0

----------------------------------------------------------------------------
(* Properties of a run (Spec) *)

\* main has the ledger: assemble_totals has returned
Assembled == pc \in {"score", "print", "dump_to_csv", "open", "write", "done"}

\* the text without the blanks at its ends
Trimmed(text) ==
    LET inked == {i \in 1..Len(text) : text[i] # " "}
        leading == Cardinality({k \in 1..Len(text) : \A a \in inked : k < a})
        kept == Cardinality({k \in 1..Len(text) : \E a, b \in inked : a <= k /\ k <= b})
    IN  [i \in 1..kept |-> text[i + leading]]

\* the slots <<game, position>> of the merged games that hold an accepted
\* assignment of a game that is neither cancelled nor postponed
CountedSlots ==
    UNION {{<<i, k>> : k \in {n \in 1..Len(games[i].assignments_game) :
                                game_assignments[games[i].assignments_game[n]].status
                                  = "accepted"}} :
           i \in {n \in 1..Len(games) : games[n].status \notin {"cancelled", "postponed"}}}

\* the ledger cell a slot resolves to: display name, season type, division, role
CellOfSlot(slot) ==
    LET game == games[slot[1]]
        assignment == game_assignments[game.assignments_game[slot[2]]]
        level == game_levels[game.game_level]
        person == users[IntToStr(event_roles[assignment.event_role].user_id)]
        code == IF level.game_level = <<"U", "8", "C">> THEN <<"0", "8", "U", "C">> ELSE level.game_level
    IN  <<Trimmed(person.first_name) \o <<" ">> \o Trimmed(person.last_name),
          IF Contains(casefold(level.schedule_name), <<"t", "o", "u", "r", "n", "e", "y">>)
          THEN <<"T", "o", "u", "r", "n", "a", "m", "e", "n", "t">> ELSE <<"R", "e", "g", "u", "l", "a", "r", " ", "S", "e", "a", "s", "o", "n">>,
          Prefix(convert_raw_division_to_age_group(code), 3),
          level.labels[assignment.official_label_col]>>

\* the cells the ledger holds
LedgerCells ==
    UNION {{<<user>> \o c : c \in CellsOf(totals[user])} : user \in DOMAIN totals}

\* C1: after load_games and assemble_totals, every ledger cell (display
\* name, season type, division, role) holds exactly the number of accepted
\* assignments, on games neither cancelled nor postponed, that resolve to
\* it; every such assignment is in exactly one cell, and a cancelled or
\* postponed game adds nothing.
C1_Ledger ==
    Assembled =>
      /\ \A slot \in CountedSlots : CellOfSlot(slot) \in LedgerCells
      /\ \A cell \in LedgerCells :
           totals[cell[1]][cell[2]][cell[3]][cell[4]] =
             Cardinality({slot \in CountedSlots : CellOfSlot(slot) = cell})

\* an active game and a cancelled and a postponed game, all with accepted
\* assignments, have been assembled: only the active game's are counted
C1_Witness ==
    /\ Assembled
    /\ docs = <<DocOff, DocFall>>
    /\ Len(games) = 3
    /\ LedgerCells = {<<<<"A", "n", "n", " ", "L", "e", "e">>, <<"R", "e", "g", "u", "l", "a", "r", " ", "S", "e", "a", "s", "o", "n">>, <<"1", "0", "U">>, <<"R", "e", "f", "e", "r", "e", "e">>>>,
                      <<<<"B", "o", "b", " ", "R", "a", "y">>, <<"R", "e", "g", "u", "l", "a", "r", " ", "S", "e", "a", "s", "o", "n">>, <<"1", "0", "U">>, <<"A", "R", "1">>>>}
    /\ totals[<<"A", "n", "n", " ", "L", "e", "e">>][<<"R", "e", "g", "u", "l", "a", "r", " ", "S", "e", "a", "s", "o", "n">>][<<"1", "0", "U">>][<<"R", "e", "f", "e", "r", "e", "e">>] = 1

\* two of the files read hold a game of the same id
RepeatedGameId ==
    \E i, j \in 1..Len(docs) :
      /\ i < j
      /\ docs[i].parse = "ok"
      /\ docs[j].parse = "ok"
      /\ \E a \in 1..Len(docs[i].data), b \in 1..Len(docs[j].data) :
           docs[i].data[a].id = docs[j].data[b].id

\* C2: when two documents hold the same game id, whatever the statuses and
\* whichever is read first, load_games raises: the run never leaves
\* load_games, resolves no game, builds no ledger and prints nothing.
C2_Duplicate ==
    RepeatedGameId =>
      /\ pc = "load_games"
      /\ game_idx = 0
      /\ totals = EmptyDict
      /\ stdout = <<>>
      /\ file_idx = Len(docs) => error = "ValueError"

\* the page repeating g1 as cancelled was read first, and the run has ended
\* with ValueError on the file holding the active g1
C2_Witness ==
    /\ docs = <<DocRepeat, DocFall>>
    /\ file_idx = 2
    /\ error = "ValueError"
    /\ pc = "load_games"

\* every assignment the game links is recorded for this game and is not
\* accepted
OnlyUnaccepted(game) ==
    /\ game.status \notin {"cancelled", "postponed"}
    /\ game.game_level \in DOMAIN game_levels
    /\ game.assignments_game # <<>>
    /\ \A k \in 1..Len(game.assignments_game) :
         /\ game.assignments_game[k] \in DOMAIN game_assignments
         /\ game_assignments[game.assignments_game[k]].external_game_id = game.id
         /\ game_assignments[game.assignments_game[k]].status # "accepted"

\* C3: an assignment that is not accepted, linked from a game neither
\* cancelled nor postponed whose id it records, is skipped whatever its label
\* column: a game with only such assignments is resolved without an error
\* and gets no roster entry.
C3_SkipsUnaccepted ==
    (pc = "load_games" /\ file_idx = Len(docs)) =>
      \A i \in 1..game_idx :
        OnlyUnaccepted(games[i]) =>
          /\ ~ (i = game_idx /\ error # "")
          /\ "refs" \notin DOMAIN games[i]

\* the ledger holds, for some person, a division the base-score table lacks
UnknownDivision ==
    \E user \in DOMAIN totals :
      \E c \in CellsOf(totals[user]) : c[2] \notin DOMAIN base_score

DivisionModes ==
    {"division_boost_only", "division_and_role_boost",
     "division_tournament_and_role_boost"}

\* C6, as stated: with a division the base-score table lacks in the ledger,
\* none of the four scoring modes gets past the scoring.
C6_AllModesFail ==
    (Assembled /\ UnknownDivision /\ args \in DivisionModes \cup {"basic"}) =>
      /\ pc = "score"
      /\ scores = EmptyDict
      /\ stdout = <<>>

\* C6, as the code has it: with a division the base-score table lacks in the
\* ledger, the three division-based modes never get past the scoring, which
\* raises KeyError before a line is printed; the basic mode, which does not
\* consult the table, scores every person the sum of their counts.
C6_DivisionModesFail ==
    (Assembled /\ UnknownDivision) =>
      /\ args \in DivisionModes =>
           /\ pc = "score"
           /\ error \in {"", "KeyError"}
           /\ scores = EmptyDict
           /\ stdout = <<>>
      /\ (args = "basic" /\ pc \in {"print", "done"}) =>
           /\ error = ""
           /\ \A user \in DOMAIN totals :
                LET count(c) == totals[user][c[1]][c[2]][c[3]]
                IN  scores[user] = SumOver(count, CellsOf(totals[user]))

\* a ledger with an 11U game has failed the division-boosted scoring
C6_Witness ==
    /\ docs = <<Doc11U>>
    /\ args = "division_boost_only"
    /\ UnknownDivision
    /\ pc = "score"
    /\ error = "KeyError"

\* C7: when a run fails, nothing has been emitted: no line printed, and the
\* CSV destination neither created, truncated nor written.
C7_NothingEmitted ==
    error # "" => (stdout = <<>> /\ csv.status = "untouched")

\* the orders in which the files read could have been processed
FileOrders ==
    {order \in [1..Len(docs) -> 1..Len(docs)] :
       \A i, j \in 1..Len(docs) : order[i] = order[j] => i = j}

\* C10: load_games followed by assemble_totals ends the same way for every
\* order of the documents: it fails in every order, or yields the same
\* ledger in every order.
C10_AnyOrder ==
    (Assembled \/ error # "") =>
      \A order \in FileOrders :
        LET outcome == load_and_assemble([i \in 1..Len(docs) |-> docs[order[i]]])
        IN  IF Assembled THEN outcome.raised = "" /\ outcome.totals = totals
            ELSE outcome.raised # ""

====
